---- MODULE Spec2Model ----
(***************************************************************************)
(* Model of mxnet::io::BatchAdaptIter (src/io/iter_batch.h): an iterator   *)
(* adapter that packs the instances of a base iterator into batches of     *)
(* param_.batch_size, with round-robin wrap-around or a padded last batch. *)
(* The base iterator is an in-memory source of nsamples instances whose    *)
(* d.index is the position of the instance in the source.                  *)
(***************************************************************************)
EXTENDS Integers, Sequences, FiniteSets, TLC

\* Bounds of the model.
MaxN == 10
MaxBatch == 4

\* The number of successful Next calls counted per epoch is capped (with
\* test_skipread the calls succeed for ever).
MaxSucc == MaxN + 1

\* Init calls on one iterator.
MaxInits == 2

\* Instances of the source and batch size in the runs that cover the whole
\* life of an iterator.
MaxLifeN == 3
MaxLifeBatch == 2

\* Values an index slot can hold right after new unsigned[batch_size]:
\* the content is indeterminate; one value that is a plausible index and one
\* that is no index of the source.
UninitVals == {0, MaxN}

VARIABLES
  inited,          \* Init has run (buffers allocated, param_ bound)
  batch_size,      \* param_.batch_size
  round_batch,     \* param_.round_batch
  test_skipread,   \* param_.test_skipread
  nsamples,        \* number of instances the base iterator holds
  cursor,          \* number of instances base_ has yielded since its BeforeFirst
  head,            \* head_
  num_overflow,    \* num_overflow_
  num_batch_padd,  \* out_.num_batch_padd
  out_batch_size,  \* out_.batch_size
  inst_index,      \* out_.inst_index : 0..batch_size-1 -> index
  op,              \* the operation that ran last
  ret,             \* what it returned: "true", "false", "ok", "fatal", "none"
  path,            \* the exit of Next that was taken
  top,             \* the local top of Next when it left the fill loop
  pulled,          \* instances the last operation pulled from base_
  epochStart,      \* cursor of base_ when the current epoch began
  nsucc,           \* Next calls that returned true since the last BeforeFirst
  ncalls,          \* Next calls since the last BeforeFirst (saturates at 2)
  restarted,       \* BeforeFirst has been called at least once
  wrapped,         \* a wrapped batch was published since the last BeforeFirst
  wrapOverflow,    \* num_overflow_ of the wrapped batch the last BeforeFirst
                   \* found pending (0 if there was none)
  label_width,     \* param_.label_width
  input_shape,     \* param_.input_shape
  allocs,          \* buffer sets AllocSpaceDense has allocated
  frees,           \* buffer sets FreeSpaceDense has freed
  destroyed,       \* the destructor has run
  cycPos,          \* index slots published so far, modulo nsamples
  protoOK          \* so far every BeforeFirst came after a Next that returned
                   \* false (or before any Next), and no refill was fatal

vars == <<inited, batch_size, round_batch, test_skipread, nsamples, cursor,
          head, num_overflow, num_batch_padd, out_batch_size, inst_index,
          op, ret, path, top, pulled, epochStart, nsucc, ncalls,
          restarted, wrapped, wrapOverflow, label_width, input_shape,
          allocs, frees, destroyed, cycPos, protoOK>>

\* ncalls is counted up to 2.
Min(a, b) == IF a < b THEN a ELSE b

----------------------------------------------------------------------------
\* The base iterator (IIterator<DataInst>), an in-memory source.

\* base_->Next(): true iff an instance is left.
SrcHasNext(cur) == cur < nsamples

\* base_->Value().index of the instance base_->Next() moves to.
SrcIndex(cur) == cur

\* base_->BeforeFirst(): the cursor goes back to the first instance.
SrcBeforeFirst == 0

----------------------------------------------------------------------------
\* Pieces of BatchAdaptIter.

\* AllocSpaceDense: out_.batch_size = param_.batch_size
AllocBatchSize_off(bs) == bs + 1
AllocBatchSize(bs) == bs

\* BeforeFirst: the condition under which base_->BeforeFirst() is called
RestartDelegates_norb(rb, no) == ~rb
RestartDelegates_always(rb, no) == TRUE
RestartDelegates(rb, no) == (~rb) \/ no = 0

\* Next: the skip-read shortcut condition
SkipRead_first(skip, h) == skip /\ h = 1
SkipRead(skip, h) == skip /\ h = 0

\* Next: overflow pending from the previous round
OverflowPending_never(no) == FALSE
OverflowPending(no) == no # 0

\* Next: padding of the short batch when round_batch is off
PadNoRound_top(bs, t) == t
PadNoRound(bs, t) == bs - t

\* Next: padding of the wrapped batch
PadRound_zero(no) == 0
PadRound(no) == no

\* Next: base_->BeforeFirst() before the refill loop
RefillStart_stay(cur) == cur
RefillStart(cur) == SrcBeforeFirst

\* Next, batch_size 0: the first instance is written to slot 0 of buffers
\* of no slot before top is compared; the call returns true or the write
\* ends the process.
NextOutcomes(r) ==
  IF r.top > batch_size THEN {r.ret, "crash"} ELSE {r.ret}

\* BatchParam: input_shape has default {3, 224, 224}, label_width default 1
DefaultShape == <<3, 224, 224>>
DefaultLabelWidth == 1

\* BatchParam: input_shape .set_expect_ndim(3).enforce_nonzero()
ShapeValid(shape) == Len(shape) = 3 /\ \A i \in 1..Len(shape) : shape[i] # 0

\* Input shapes kwargs can give: the default, one with a zero dimension, one
\* of two dimensions.
Shapes == {DefaultShape, <<3, 0, 224>>, <<3, 224>>}

\* Label widths kwargs can give.
LabelWidths == {0, DefaultLabelWidth}

\* Init: AllocSpaceDense(false) allocates data, label and inst_index
AllocCount(a) == a + 1

\* Value: CHECK(head_ == 0)
ValueCheck_none(h) == TRUE
ValueCheck(h) == h = 0

\* Next: the while loop over base_->Next(), from slot t. With batch_size 0
\* the write to slot 0 falls outside the buffers (see NextOutcomes).
RECURSIVE FillLoop(_, _, _)
FillLoop_clear(idx, cur, t) ==
  IF t = 0 /\ \E k \in DOMAIN idx : idx[k] # 0
  THEN FillLoop([k \in DOMAIN idx |-> 0], cur, t)
  ELSE IF SrcHasNext(cur)
  THEN LET idx2 == IF t \in DOMAIN idx
                   THEN [idx EXCEPT ![t] = SrcIndex(cur)]
                   ELSE idx
       IN IF t + 1 >= batch_size
          THEN [idx |-> idx2, cur |-> cur + 1, top |-> t + 1, full |-> TRUE]
          ELSE FillLoop(idx2, cur + 1, t + 1)
  ELSE [idx |-> idx, cur |-> cur, top |-> t, full |-> FALSE]
FillLoop(idx, cur, t) ==
  IF SrcHasNext(cur)
  THEN LET idx2 == IF t \in DOMAIN idx
                   THEN [idx EXCEPT ![t] = SrcIndex(cur)]
                   ELSE idx
       IN IF t + 1 >= batch_size
          THEN [idx |-> idx2, cur |-> cur + 1, top |-> t + 1, full |-> TRUE]
          ELSE FillLoop(idx2, cur + 1, t + 1)
  ELSE [idx |-> idx, cur |-> cur, top |-> t, full |-> FALSE]

\* Next: the round-robin refill loop after base_->BeforeFirst()
RECURSIVE RefillLoop(_, _, _, _)
RefillLoop(idx, cur, t, no) ==
  IF t < batch_size
  THEN IF SrcHasNext(cur)
       THEN RefillLoop([idx EXCEPT ![t] = SrcIndex(cur)], cur + 1, t + 1, no + 1)
       ELSE [idx |-> idx, cur |-> cur, top |-> t, no |-> no, ok |-> FALSE]
  ELSE [idx |-> idx, cur |-> cur, top |-> t, no |-> no, ok |-> TRUE]

----------------------------------------------------------------------------
\* State after construction: base_ is set, num_overflow_ is 0, head_ is not
\* initialised, nothing is allocated.
Init ==
  /\ inited = FALSE
  /\ batch_size = 0
  /\ round_batch = FALSE
  /\ test_skipread = FALSE
  /\ nsamples = 0
  /\ cursor = 0
  /\ head \in {0, 1}
  /\ num_overflow = 0
  /\ num_batch_padd = 0
  /\ out_batch_size = 0
  /\ inst_index = << >>
  /\ op = "ctor"
  /\ ret = "none"
  /\ path = "none"
  /\ top = 0
  /\ pulled = 0
  /\ epochStart = 0
  /\ nsucc = 0
  /\ ncalls = 0
  /\ restarted = FALSE
  /\ wrapped = FALSE
  /\ wrapOverflow = 0
  /\ label_width = 0
  /\ input_shape = << >>
  /\ allocs = 0
  /\ frees = 0
  /\ destroyed = FALSE
  /\ cycPos = 0
  /\ protoOK = TRUE

\* Init(kwargs) with the values kwargs gives to the parameters and the number
\* of instances the configured base iterator holds. InitAllowUnknown throws
\* on an input_shape the declaration rejects; nothing else is validated.
\* A repeated Init leaves the position of base_ or rewinds it.
InitWith(bs, shape, lw, rb, skip, n) ==
  /\ ~destroyed
  /\ allocs < MaxInits
  /\ op' = "Init"
  /\ IF ~ShapeValid(shape)
     THEN /\ ret' = "fatal"
          /\ UNCHANGED <<inited, batch_size, round_batch, test_skipread,
                         nsamples, cursor, out_batch_size, inst_index,
                         label_width, input_shape, allocs>>
     ELSE /\ ret' = "none"
          /\ inited' = TRUE
          /\ batch_size' = bs
          /\ input_shape' = shape
          /\ label_width' = lw
          /\ round_batch' = rb
          /\ test_skipread' = skip
          /\ nsamples' = n
          /\ cursor' \in (IF inited THEN {cursor, 0} ELSE {0})
          /\ out_batch_size' = AllocBatchSize(bs)
          /\ inst_index' \in [0..(bs - 1) -> UninitVals]
          /\ allocs' = AllocCount(allocs)
  /\ UNCHANGED <<head, num_overflow, num_batch_padd, path, top, pulled,
                 epochStart, nsucc, ncalls, restarted, wrapped,
                 wrapOverflow, frees, destroyed, cycPos, protoOK>>

\* Init(kwargs), called once with a configuration of positive batch_size,
\* the default input_shape and the default label_width.
IterInit ==
  /\ ~inited
  /\ \E bs \in 1..MaxBatch, rb \in BOOLEAN, skip \in BOOLEAN, n \in 0..MaxN :
       InitWith(bs, DefaultShape, DefaultLabelWidth, rb, skip, n)

\* Init(kwargs) with any configuration; a repeated Init passes the kwargs of
\* the first.
IterInitAny ==
  \E bs \in 0..MaxLifeBatch, shape \in Shapes, lw \in LabelWidths,
     rb \in BOOLEAN, skip \in BOOLEAN, n \in 0..MaxLifeN :
    /\ inited => /\ bs = batch_size
                 /\ shape = input_shape
                 /\ lw = label_width
                 /\ rb = round_batch
                 /\ skip = test_skipread
                 /\ n = nsamples
    /\ InitWith(bs, shape, lw, rb, skip, n)

\* ~BatchAdaptIter(): deletes base_ and frees the buffers label.dptr_ names.
Destroy ==
  /\ inited
  /\ ~destroyed
  /\ destroyed' = TRUE
  /\ frees' = IF allocs > 0 THEN frees + 1 ELSE frees
  /\ op' = "dtor"
  /\ ret' = "none"
  /\ pulled' = 0
  /\ UNCHANGED <<inited, batch_size, round_batch, test_skipread, nsamples,
                 cursor, head, num_overflow, num_batch_padd, out_batch_size,
                 inst_index, path, top, epochStart, nsucc, ncalls,
                 restarted, wrapped, wrapOverflow, label_width, input_shape,
                 allocs, cycPos, protoOK>>

\* BeforeFirst() that rewinds the source whatever num_overflow_ is
BeforeFirst_rewind ==
  /\ inited
  /\ ~destroyed
  /\ cursor' = SrcBeforeFirst
  /\ num_overflow' = 0
  /\ head' = 1
  /\ op' = "BeforeFirst"
  /\ ret' = "none"
  /\ pulled' = 0
  /\ epochStart' = cursor'
  /\ nsucc' = 0
  /\ ncalls' = 0
  /\ restarted' = TRUE
  /\ wrapped' = FALSE
  /\ wrapOverflow' = IF wrapped THEN num_overflow ELSE 0
  /\ protoOK' = (protoOK /\ IF ncalls = 0
                            THEN ~restarted
                            ELSE path \in {"empty", "pending"})
  /\ UNCHANGED <<inited, batch_size, round_batch, test_skipread, nsamples,
                 num_batch_padd, out_batch_size, inst_index, path, top,
                 label_width, input_shape, allocs, frees, destroyed,
                 cycPos>>

\* BeforeFirst()
BeforeFirst ==
  /\ inited
  /\ ~destroyed
  /\ IF RestartDelegates(round_batch, num_overflow)
     THEN /\ cursor' = SrcBeforeFirst
          /\ UNCHANGED num_overflow
     ELSE /\ num_overflow' = 0
          /\ UNCHANGED cursor
  /\ head' = 1
  /\ op' = "BeforeFirst"
  /\ ret' = "none"
  /\ pulled' = 0
  /\ epochStart' = cursor'
  /\ nsucc' = 0
  /\ ncalls' = 0
  /\ restarted' = TRUE
  /\ wrapped' = FALSE
  /\ wrapOverflow' = IF wrapped THEN num_overflow ELSE 0
  /\ protoOK' = (protoOK /\ IF ncalls = 0
                            THEN ~restarted
                            ELSE path \in {"empty", "pending"})
  /\ UNCHANGED <<inited, batch_size, round_batch, test_skipread, nsamples,
                 num_batch_padd, out_batch_size, inst_index, path, top,
                 label_width, input_shape, allocs, frees, destroyed,
                 cycPos>>

\* The outcome of Next() computed from the current state.
NextResult ==
  IF SkipRead(test_skipread, head)
  THEN [path |-> "skip", ret |-> "true", head |-> head, idx |-> inst_index,
        cur |-> cursor, no |-> num_overflow, padd |-> 0, top |-> 0,
        pulled |-> 0]
  ELSE IF OverflowPending(num_overflow)
  THEN [path |-> "pending", ret |-> "false", head |-> 0, idx |-> inst_index,
        cur |-> cursor, no |-> num_overflow, padd |-> 0, top |-> 0,
        pulled |-> 0]
  ELSE LET f == FillLoop(inst_index, cursor, 0) IN
    IF f.full
    THEN [path |-> "full", ret |-> "true", head |-> 0, idx |-> f.idx,
          cur |-> f.cur, no |-> num_overflow, padd |-> 0, top |-> f.top,
          pulled |-> f.top]
    ELSE IF f.top # 0
    THEN IF round_batch
         THEN LET r == RefillLoop(f.idx, RefillStart(f.cur), f.top, 0) IN
              IF r.ok
              THEN [path |-> "wrap", ret |-> "true", head |-> 0,
                    idx |-> r.idx, cur |-> r.cur, no |-> r.no,
                    padd |-> PadRound(r.no), top |-> f.top,
                    pulled |-> f.top + r.no]
              ELSE [path |-> "wrapfail", ret |-> "fatal", head |-> 0,
                    idx |-> r.idx, cur |-> r.cur, no |-> r.no,
                    padd |-> 0, top |-> f.top, pulled |-> f.top + r.no]
         ELSE [path |-> "partial", ret |-> "true", head |-> 0,
               idx |-> f.idx, cur |-> f.cur, no |-> num_overflow,
               padd |-> PadNoRound(batch_size, f.top), top |-> f.top,
               pulled |-> f.top]
    ELSE [path |-> "empty", ret |-> "false", head |-> 0, idx |-> f.idx,
          cur |-> f.cur, no |-> num_overflow, padd |-> 0, top |-> 0,
          pulled |-> 0]

\* Next()
IterNext ==
  /\ inited
  /\ ~destroyed
  /\ nsucc < MaxSucc
  /\ LET r == NextResult IN
       /\ path' = r.path
       /\ ret' \in NextOutcomes(r)
       /\ head' = r.head
       /\ inst_index' = r.idx
       /\ cursor' = r.cur
       /\ num_overflow' = r.no
       /\ num_batch_padd' = r.padd
       /\ top' = r.top
       /\ pulled' = r.pulled
       /\ nsucc' = IF ret' = "true" THEN nsucc + 1 ELSE nsucc
       /\ cycPos' = IF r.path \in {"full", "wrap", "partial"}
                    THEN (cycPos + batch_size) % nsamples
                    ELSE cycPos
       /\ protoOK' = (protoOK /\ r.path # "wrapfail")
  /\ ncalls' = Min(ncalls + 1, 2)
  /\ op' = "Next"
  /\ wrapped' = (wrapped \/ path' = "wrap")
  /\ UNCHANGED <<inited, batch_size, round_batch, test_skipread, nsamples,
                 out_batch_size, epochStart, restarted, wrapOverflow,
                 label_width, input_shape, allocs, frees, destroyed>>

\* Value(): const, only the CHECK can fail.
Value ==
  /\ inited
  /\ ~destroyed
  /\ op' = "Value"
  /\ ret' = IF ValueCheck(head) THEN "ok" ELSE "fatal"
  /\ pulled' = 0
  /\ UNCHANGED <<inited, batch_size, round_batch, test_skipread, nsamples,
                 cursor, head, num_overflow, num_batch_padd, out_batch_size,
                 inst_index, path, top, epochStart, nsucc, ncalls,
                 restarted, wrapped, wrapOverflow, label_width, input_shape,
                 allocs, frees, destroyed, cycPos, protoOK>>

Next == IterInit \/ BeforeFirst \/ IterNext \/ Value

Spec == Init /\ [][Next]_vars

\* The caller keeps calling Next.
SpecFair == Spec /\ WF_vars(IterNext)

\* The whole life of an iterator: any configuration, repeated Init, and the
\* destructor.
NextLife == IterInitAny \/ BeforeFirst \/ IterNext \/ Value \/ Destroy

SpecLife == Init /\ [][NextLife]_vars

----------------------------------------------------------------------------
\* Vocabulary of the properties.

\* The last operation was a Next that published a batch through a fill.
Published == op = "Next" /\ path \in {"full", "wrap", "partial"}

\* The batch just published is the last of its epoch: the Next that would
\* follow returns false.
FinalBatch == Published /\ NextResult.ret = "false"

\* The last Next since BeforeFirst returned false.
Eos == ncalls >= 1 /\ path \in {"empty", "pending"}

\* Slots lo..hi-1 hold the consecutive source indices from, from+1, ...
SlotsHold(lo, hi, from) ==
  \A k \in lo..(hi - 1) : inst_index[k] = from + (k - lo)

----------------------------------------------------------------------------
\* C1: after Init the batch has exactly batch_size index slots
\* (out_.batch_size = batch_size) and 0 <= num_batch_padd <= batch_size,
\* in every state, for both round_batch settings.
C1_BatchShape ==
  inited =>
    /\ out_batch_size = batch_size
    /\ DOMAIN inst_index = 0..(batch_size - 1)
    /\ num_batch_padd >= 0
    /\ num_batch_padd <= batch_size

C1_Witness ==
  /\ Published
  /\ restarted
  /\ path = "wrap"
  /\ num_batch_padd > 0
  /\ out_batch_size = batch_size

\* C2: with nsamples a positive multiple of batch_size and test_skipread off,
\* every published batch has padding 0 and, when Next returns false, exactly
\* nsamples / batch_size calls of the epoch have returned true.
C2_ExactMultiple ==
  (inited /\ ~test_skipread /\ nsamples > 0 /\ nsamples % batch_size = 0) =>
    /\ num_batch_padd = 0
    /\ Published => path = "full"
    /\ Eos => nsucc = nsamples \div batch_size

C2_Witness ==
  /\ restarted
  /\ round_batch
  /\ ~test_skipread
  /\ nsamples = 8
  /\ batch_size = 4
  /\ op = "Next"
  /\ Eos
  /\ nsucc = 2

\* C3 as stated: with round_batch and nsamples not a multiple of batch_size,
\* the final batch of every epoch has padding = num_overflow =
\* batch_size - (nsamples mod batch_size) and its trailing slots hold the
\* indices 0..num_overflow-1.
C3_Original ==
  (round_batch /\ nsamples % batch_size # 0 /\ FinalBatch) =>
    /\ num_batch_padd = num_overflow
    /\ num_batch_padd = batch_size - (nsamples % batch_size)
    /\ SlotsHold(batch_size - num_overflow, batch_size, 0)

\* C3 amended: with round_batch, the final batch of an epoch that began with
\* the source cursor at epochStart, (nsamples - epochStart) mod batch_size
\* nonzero, is a wrapped batch with padding = num_overflow =
\* batch_size - ((nsamples - epochStart) mod batch_size); its leading slots
\* hold the last real samples and its trailing num_overflow slots hold the
\* indices 0..num_overflow-1. When that remainder is 0 the final batch is a
\* full batch with padding 0.
C3_WrapPadding ==
  /\ (round_batch /\ Published /\ path = "wrap") =>
       /\ num_batch_padd = num_overflow
       /\ num_overflow = batch_size - ((nsamples - epochStart) % batch_size)
       /\ top = batch_size - num_overflow
       /\ SlotsHold(0, top, nsamples - top)
       /\ SlotsHold(top, batch_size, 0)
       /\ cursor = num_overflow
       /\ ~test_skipread => FinalBatch
  /\ (round_batch /\ FinalBatch) =>
       IF (nsamples - epochStart) % batch_size # 0
       THEN path = "wrap"
       ELSE path = "full" /\ num_batch_padd = 0

C3_Witness ==
  /\ round_batch
  /\ FinalBatch
  /\ path = "wrap"
  /\ nsamples = 10
  /\ batch_size = 4
  /\ epochStart = 0
  /\ num_batch_padd = 2
  /\ inst_index = [k \in 0..3 |-> IF k < 2 THEN 8 + k ELSE k - 2]

\* C4 as stated: with round_batch off and nsamples mod batch_size nonzero,
\* the final batch of an epoch has padding = nsamples mod batch_size and its
\* leading slots hold the last nsamples mod batch_size samples.
C4_Original ==
  (inited /\ ~round_batch /\ nsamples % batch_size # 0 /\ FinalBatch) =>
    /\ num_batch_padd = nsamples % batch_size
    /\ SlotsHold(0, nsamples % batch_size,
                 nsamples - (nsamples % batch_size))

\* C4 amended: with round_batch off and nsamples mod batch_size nonzero, the
\* final batch of an epoch has padding = batch_size - (nsamples mod
\* batch_size) and its leading nsamples mod batch_size slots hold the last
\* samples of the source in source order.
C4_PartialPadding ==
  /\ (inited /\ ~round_batch /\ nsamples % batch_size # 0 /\ FinalBatch) =>
       /\ path = "partial"
       /\ num_batch_padd = batch_size - (nsamples % batch_size)
       /\ top = nsamples % batch_size
       /\ SlotsHold(0, nsamples % batch_size,
                    nsamples - (nsamples % batch_size))
  /\ (inited /\ ~round_batch /\ Published /\ path = "partial") =>
       /\ nsamples % batch_size # 0
       /\ num_batch_padd = batch_size - (nsamples % batch_size)
       /\ ~test_skipread => FinalBatch

C4_Witness ==
  /\ ~round_batch
  /\ restarted
  /\ FinalBatch
  /\ nsamples = 9
  /\ batch_size = 4
  /\ num_batch_padd = 3
  /\ inst_index[0] = 8

\* C5: with round_batch, the first Next after the BeforeFirst that follows a
\* wrapped final batch publishes a batch whose slot 0 holds the source index
\* num_overflow of that wrapped batch.
C5_ResumeAfterWrap ==
  (round_batch /\ wrapOverflow > 0 /\ op = "Next" /\ ncalls = 1) =>
    /\ ret = "true"
    /\ inst_index[0] = wrapOverflow

C8_SmallSourceFatal ==
  (round_batch /\ nsamples >= 1 /\ nsamples < batch_size /\ op = "Next"
     /\ path \in {"wrap", "wrapfail"}) =>
    (ret = "fatal" /\ path = "wrapfail")

\* C9: with round_batch and test_skipread off, once a wrapped batch has been
\* published num_overflow stays positive until BeforeFirst, and every Next
\* before it returns false without pulling and without changing the slots.
C9_PendingOverflow ==
  /\ [](wrapped => (round_batch /\ num_overflow > 0))
  /\ [][(wrapped /\ ~test_skipread /\ op' = "Next") =>
          /\ ret' = "false"
          /\ pulled' = 0
          /\ cursor' = cursor
          /\ inst_index' = inst_index]_vars
  /\ [][(num_overflow > 0 /\ num_overflow' = 0) => op' = "BeforeFirst"]_vars
  /\ [][(~test_skipread /\ op' = "Next" /\ ret' = "true") =>
          num_overflow = 0]_vars

C9_Witness ==
  /\ wrapped
  /\ ~test_skipread
  /\ op = "Next"
  /\ path = "pending"
  /\ ret = "false"
  /\ pulled = 0

\* C10: with round_batch off, a Next that finds the source exhausted after
\* top slots (0 < top < batch_size) returns true with padding
\* batch_size - top; slots 0..top-1 hold the samples just pulled and slots
\* top..batch_size-1 keep the values they had before the call.
C10_StaleSlots ==
  /\ [][(~round_batch /\ op' = "Next" /\ path' = "partial") =>
          /\ top' > 0
          /\ top' < batch_size
          /\ top' = nsamples - cursor
          /\ ret' = "true"
          /\ num_batch_padd' = batch_size - top'
          /\ \A k \in 0..(top' - 1) : inst_index'[k] = cursor + k
          /\ \A k \in top'..(batch_size - 1) :
               inst_index'[k] = inst_index[k]]_vars
  /\ [][(inited /\ ~round_batch /\ op' = "Next"
           /\ ~(test_skipread /\ head = 0)
           /\ nsamples - cursor > 0 /\ nsamples - cursor < batch_size) =>
          path' = "partial"]_vars

C10_Witness ==
  /\ ~round_batch
  /\ Published
  /\ path = "partial"
  /\ nsamples = 10
  /\ batch_size = 4
  /\ num_batch_padd = 2
  /\ inst_index = [k \in 0..3 |-> IF k < 2 THEN 8 + k ELSE 4 + k]

\* C11: the buffers are allocated exactly once: no Next or BeforeFirst
\* allocates or frees, a repeated Init with the same configuration does not
\* allocate a second set, and the destructor frees every allocated set once.
C11_AllocatedOnce ==
  /\ allocs <= 1
  /\ frees <= allocs
  /\ destroyed => frees = allocs
  /\ (op \in {"Next", "BeforeFirst", "Value"} /\ ~destroyed) =>
       (allocs = 1 /\ frees = 0)

\* C12: Init fails whenever batch_size is not positive, label_width is not
\* positive or input_shape is not of 3 nonzero dimensions: an iterator that
\* Init has set up, and that can produce batches, has a valid configuration.
C12_InvalidConfigRejected ==
  inited =>
    /\ batch_size >= 1
    /\ label_width >= 1
    /\ ShapeValid(input_shape)

\* C13: BeforeFirst restarts the source (cursor back to 0, num_overflow
\* untouched) iff round_batch is off or num_overflow is 0; otherwise it
\* leaves the cursor and sets num_overflow to 0. In both cases it sets head_
\* to 1 and leaves the index slots, the padding count and out_.batch_size
\* unchanged.
C13_RestartFrame ==
  [][op' = "BeforeFirst" =>
       /\ IF (~round_batch) \/ num_overflow = 0
          THEN cursor' = 0 /\ num_overflow' = num_overflow
          ELSE cursor' = cursor /\ cursor # 0 /\ num_overflow' = 0
       /\ head' = 1
       /\ inst_index' = inst_index
       /\ num_batch_padd' = num_batch_padd
       /\ out_batch_size' = out_batch_size]_vars

C13_Witness ==
  /\ op = "BeforeFirst"
  /\ round_batch
  /\ wrapOverflow > 0
  /\ num_overflow = 0
  /\ cursor = wrapOverflow
  /\ head = 1
  /\ num_batch_padd = wrapOverflow

\* C14: with test_skipread off every epoch ends: at most
\* ceil(nsamples / batch_size) calls of Next return true after a BeforeFirst,
\* once Next has returned false every further Next before the following
\* BeforeFirst returns false, and a caller that keeps calling Next reaches
\* the call that returns false (unless it calls BeforeFirst first).
C14_EpochTerminates ==
  /\ []((inited /\ ~test_skipread) =>
          nsucc <= (nsamples + batch_size - 1) \div batch_size)
  /\ [][(~test_skipread /\ Eos /\ op' = "Next") =>
          (ret' = "false" /\ cursor' = cursor)]_vars
  /\ []<>(~inited \/ test_skipread \/ Eos \/ ncalls = 0)

C14_Witness ==
  /\ restarted
  /\ ~test_skipread
  /\ Eos
  /\ op = "Next"
  /\ ncalls = 2
  /\ nsamples = 10
  /\ batch_size = 4
  /\ nsucc = 3

\* C15: a Next that returns false (source exhausted with top = 0, or
\* overflow pending) and a Next that returns true through the test_skipread
\* shortcut leave the index slots and the padding count as the last fill
\* left them.
C15_PaddingStable ==
  [][(op' = "Next" /\ path' \in {"skip", "pending", "empty"}) =>
       /\ inst_index' = inst_index
       /\ num_batch_padd' = num_batch_padd]_vars

\* C16: with round_batch on, test_skipread off and nsamples >= 1, as long as
\* no refill was fatal and every BeforeFirst followed a Next that returned
\* false (one BeforeFirst between epochs), the slots of the published
\* batches, concatenated, follow the cyclic sequence 0, 1, ..,
\* nsamples-1, 0, 1, ..: each batch continues where the one before ended.
C16_CyclicOrder ==
  [][(round_batch /\ ~test_skipread /\ nsamples >= 1 /\ protoOK'
        /\ op' = "Next" /\ ret' = "true") =>
       /\ path' \in {"full", "wrap"}
       /\ \A k \in 0..(batch_size - 1) :
            inst_index'[k] = (cycPos + k) % nsamples
       /\ cursor' % nsamples = cycPos']_vars

C16_Witness ==
  /\ round_batch
  /\ ~test_skipread
  /\ protoOK
  /\ Published
  /\ nsamples = 10
  /\ batch_size = 4
  /\ wrapOverflow = 2
  /\ inst_index = [k \in 0..3 |-> 2 + k]
  /\ cycPos = 6

\* C17: BeforeFirst called right after BeforeFirst changes nothing: the
\* source cursor, num_overflow, head_ and the batch are what the first call
\* left, so the batches that follow are the same as after one call.
C17_RestartIdempotent ==
  [][(op = "BeforeFirst" /\ op' = "BeforeFirst") =>
       /\ cursor' = cursor
       /\ num_overflow' = num_overflow
       /\ head' = head
       /\ inst_index' = inst_index]_vars

\* C18: 0 <= num_overflow < batch_size; num_overflow > 0 only with
\* round_batch; and while num_overflow > 0 the source cursor equals
\* num_overflow: the restarted source has yielded the instances
\* 0..num_overflow-1, the trailing slots of the wrapped batch.
C18_OverflowRange ==
  inited =>
    /\ num_overflow >= 0
    /\ num_overflow < batch_size
    /\ num_overflow > 0 => (round_batch /\ cursor = num_overflow)
    /\ wrapped => /\ num_overflow > 0
                  /\ SlotsHold(batch_size - num_overflow, batch_size, 0)

C18_Witness ==
  /\ round_batch
  /\ wrapped
  /\ op = "Value"
  /\ path = "wrap"
  /\ nsamples = 10
  /\ batch_size = 4
  /\ num_overflow = 2
  /\ cursor = 2

\* C19: with round_batch on and nsamples >= batch_size no Next ends in the
\* fatal check of the refill, whatever the order of BeforeFirst and Next.
C19_NoFatalRefill ==
  (round_batch /\ nsamples >= batch_size) =>
    /\ path # "wrapfail"
    /\ ~(op = "Next" /\ ret = "fatal")

C19_Witness ==
  /\ round_batch
  /\ nsamples >= batch_size
  /\ Published
  /\ path = "wrap"
  /\ ~protoOK
  /\ epochStart > 0
  /\ num_overflow # wrapOverflow

\* C20: with nsamples >= batch_size the first Next after a BeforeFirst
\* returns true and publishes a batch whose slot 0 holds the instance the
\* source was at; an epoch whose Next calls all returned false occurs only
\* with nsamples < batch_size.
C20_NoEmptyEpoch ==
  /\ [][(inited /\ nsamples >= batch_size /\ restarted /\ ncalls = 0
           /\ op' = "Next") =>
          /\ ret' = "true"
          /\ path' \in {"full", "wrap", "partial"}
          /\ pulled' >= 1
          /\ cursor < nsamples
          /\ inst_index'[0] = cursor]_vars
  /\ []((restarted /\ Eos /\ nsucc = 0) => nsamples < batch_size)

C20_Witness ==
  /\ restarted
  /\ nsamples >= batch_size
  /\ op = "Next"
  /\ ncalls = 1
  /\ ret = "true"
  /\ wrapOverflow > 0
  /\ inst_index[0] = wrapOverflow
====
